---- MODULE Spec2Model ----
(***************************************************************************)
(* Constant-product token swap pool (programs/token-swap/src/lib.rs).       *)
(*                                                                         *)
(* The SwapPool account, the two vault balances, the LP mint supply and    *)
(* the LP balances of the users are the state.  Every instruction is one   *)
(* action: the Accounts constraints, the handler body, and the host's      *)
(* commit (persist the pool account when it is declared mut, apply the     *)
(* issued token-program calls) or abort (nothing changes).                 *)
(*                                                                         *)
(* u64 is modelled as a word with maximum U64_MAX; the product of two      *)
(* words is exact (the u128 intermediate of the code cannot overflow), and *)
(* `as u64` keeps the value modulo U64_MAX + 1.                            *)
(***************************************************************************)
EXTENDS Integers, Sequences, FiniteSets, TLC

\* ------------------------------------------------------------------ bounds

\* Largest value of the model's u64 word.
U64_MAX == 32767

\* Committed state-changing instructions per behaviour.
MaxOps == 4

\* Consecutive instructions that change nothing (failed, or read-only).
MaxIdle == 1

\* ------------------------------------------------------- program constants

MAX_FEE_RATE == 1000
BPS_DENOMINATOR == 10000
PRICE_SCALE == 1000000

\* ------------------------------------------------------------- input sets

Keys == {"alice", "bob"}
\* Who creates the pool, and who trades.
Initializers == {"alice"}
Traders == {"bob"}
\* Who seeds the pool through add_initial_liquidity.
InitialProviders == {"alice"}
DefaultKey == "11111111111111111111111111111111"
\* The two mints passed to initialize_pool; nothing requires them to differ.
MintPairs == {<<"mintA", "mintB">>, <<"mintA", "mintA">>}
InitFeeRates == {0, 1000, 1001}
NewFeeRates == {500, 1000, 1001}
InitialAmounts ==
    {<<0, 100>>, <<100, 0>>, <<100, 100>>, <<100, 400>>, <<1, 16384>>, <<3, 3>>}
\* add_liquidity: <<amount_a_desired, amount_b_desired, amount_a_min, amount_b_min>>
AddLiquidityArgs ==
    {<<0, 30, 0, 0>>, <<10, 0, 0, 0>>, <<10, 30, 0, 0>>, <<10, 30, 8, 0>>,
     <<10, 30, 0, 11>>, <<2, 30, 0, 0>>}
\* remove_liquidity: <<lp_amount, amount_a_min, amount_b_min>>
RemoveLiquidityArgs ==
    {<<0, 0, 0>>, <<10, 0, 0>>, <<10, 11, 0>>, <<10, 0, 11>>, <<100, 0, 0>>}
\* swap: <<amount_in, min_amount_out>>
SwapArgs == {<<0, 0>>, <<20, 0>>, <<20, 16>>, <<20, 17>>}
SwapAmounts == {0, 20}
\* The mints of the accounts a trader passes as user_token_a and user_token_b:
\* selling A for B, and the two accounts exchanged to sell B for A.
UserAccountMints ==
    {<<"mintA", "mintB">>, <<"mintB", "mintA">>, <<"mintB", "mintB">>}

\* --------------------------------------------------- checked u64 arithmetic

\* Option::None of a checked operation; it propagates through a chain of
\* checked operations the way `.ok_or(e)?` returns at the first failure.
None == 0 - 1

checked_add(a, b) ==
    IF a = None \/ b = None THEN None
    ELSE IF a + b > U64_MAX THEN None ELSE a + b

checked_sub(a, b) ==
    IF a = None \/ b = None THEN None
    ELSE IF a < b THEN None ELSE a - b

checked_mul(a, b) ==
    IF a = None \/ b = None THEN None
    ELSE IF a * b > U64_MAX THEN None ELSE a * b

checked_div(a, b) ==
    IF a = None \/ b = None THEN None
    ELSE IF b = 0 THEN None ELSE a \div b

\* (a as u128).checked_mul(b as u128).unwrap().checked_div(c as u128): the
\* product of two u64 fits u128, so only the division can be None.
wide_mul_div(a, b, c) == IF c = 0 THEN None ELSE (a * b) \div c

\* `x as u64` of a u128: the low word.
as_u64(x) == x % (U64_MAX + 1)

Min(a, b) == IF a <= b THEN a ELSE b

\* Mutant: the pause flag is not consulted.
never_paused(p) == TRUE

\* require!(!swap_pool.is_paused, PoolPaused)
not_paused(p) == ~p.is_paused

\* ------------------------------------------------------------------ state

VARIABLES
    initialized,          \* the swap_pool account exists
    swap_pool,            \* the persisted SwapPool account
    token_a_vault_amount, \* balance of vault A
    token_b_vault_amount, \* balance of vault B
    lp_mint_supply,       \* supply of the LP mint
    user_lp_token_amount, \* LP balance of each user
    nops,                 \* committed state-changing instructions so far
    idle,                 \* instructions since the last one that committed
    last                  \* the last instruction: the state it ran in, its
                          \* inputs, its result and the calls it issued

vars == <<initialized, swap_pool, token_a_vault_amount, token_b_vault_amount,
          lp_mint_supply, user_lp_token_amount, nops, idle, last>>

\* A zeroed SwapPool account.
SwapPool ==
    [token_a_mint |-> DefaultKey, token_b_mint |-> DefaultKey,
     token_a_vault |-> DefaultKey, token_b_vault |-> DefaultKey,
     lp_mint |-> DefaultKey, pool_authority |-> DefaultKey,
     fee_rate |-> 0, bump |-> 0, is_paused |-> FALSE, admin |-> DefaultKey,
     total_fees_a |-> 0, total_fees_b |-> 0]

\* The accounts as an instruction finds them.
Accounts ==
    [swap_pool |-> swap_pool, token_a_vault |-> token_a_vault_amount,
     token_b_vault |-> token_b_vault_amount, lp_mint |-> lp_mint_supply,
     user_lp_token |-> user_lp_token_amount]

NoLast ==
    [op |-> "none", caller |-> DefaultKey, args |-> <<>>, err |-> "Ok",
     effects |-> <<>>, mem |-> SwapPool, ret |-> <<>>, committed |-> FALSE,
     pre |-> [swap_pool |-> SwapPool, token_a_vault |-> 0, token_b_vault |-> 0,
              lp_mint |-> 0, user_lp_token |-> [k \in Keys |-> 0]]]

Init ==
    /\ initialized = FALSE
    /\ swap_pool = SwapPool
    /\ token_a_vault_amount = 0
    /\ token_b_vault_amount = 0
    /\ lp_mint_supply = 0
    /\ user_lp_token_amount = [k \in Keys |-> 0]
    /\ nops = 0
    /\ idle = 0
    /\ last = NoLast

\* ----------------------------------------------------------- token program

Transfer(from, to, amount) ==
    [kind |-> "transfer_checked", from |-> from, to |-> to, amount |-> amount]
MintTo(to, amount) ==
    [kind |-> "mint_to", from |-> "lp_mint", to |-> to, amount |-> amount]
Burn(from, amount) ==
    [kind |-> "burn", from |-> from, to |-> "lp_mint", amount |-> amount]

Ledger ==
    [a |-> token_a_vault_amount, b |-> token_b_vault_amount,
     supply |-> lp_mint_supply, lp |-> user_lp_token_amount, ok |-> TRUE]

\* One token-program call on the ledger; the wallets of the users hold
\* enough of both assets, the vaults and the LP accounts are tracked.
ApplyEffect(l, e, caller) ==
    IF e.kind = "transfer_checked" THEN
        IF e.to = "token_a_vault" THEN
            IF l.a + e.amount > U64_MAX THEN [l EXCEPT !.ok = FALSE]
            ELSE [l EXCEPT !.a = l.a + e.amount]
        ELSE IF e.to = "token_b_vault" THEN
            IF l.b + e.amount > U64_MAX THEN [l EXCEPT !.ok = FALSE]
            ELSE [l EXCEPT !.b = l.b + e.amount]
        ELSE IF e.from = "token_a_vault" THEN
            IF l.a < e.amount THEN [l EXCEPT !.ok = FALSE]
            ELSE [l EXCEPT !.a = l.a - e.amount]
        ELSE
            IF l.b < e.amount THEN [l EXCEPT !.ok = FALSE]
            ELSE [l EXCEPT !.b = l.b - e.amount]
    ELSE IF e.kind = "mint_to" THEN
        IF l.supply + e.amount > U64_MAX THEN [l EXCEPT !.ok = FALSE]
        ELSE [l EXCEPT !.supply = l.supply + e.amount,
                       !.lp[caller] = l.lp[caller] + e.amount]
    ELSE
        IF l.lp[caller] < e.amount THEN [l EXCEPT !.ok = FALSE]
        ELSE [l EXCEPT !.supply = l.supply - e.amount,
                       !.lp[caller] = l.lp[caller] - e.amount]

RECURSIVE ApplyEffects(_, _, _)
ApplyEffects(l, effects, caller) ==
    IF effects = <<>> \/ ~l.ok THEN l
    ELSE ApplyEffects(ApplyEffect(l, Head(effects), caller), Tail(effects), caller)

\* ------------------------------------------------------- handler results

\* What a handler returns: the error kind (or "Ok"), the in-memory SwapPool
\* as the handler left it, the token-program calls it issued, its value.
Result(err, mem, effects, ret) ==
    [err |-> err, mem |-> mem, effects |-> effects, ret |-> ret]

\* Mutant: the in-memory pool is written back whether or not the Accounts
\* struct declares swap_pool mut.
Finish_written_back(op, caller, args, res, is_mut) ==
    LET l == ApplyEffects(Ledger, res.effects, caller)
        err == IF res.err # "Ok" THEN res.err
               ELSE IF l.ok THEN "Ok" ELSE "TokenError"
    IN  /\ last' = [op |-> op, caller |-> caller, args |-> args, err |-> err,
                    effects |-> res.effects, mem |-> res.mem, ret |-> res.ret,
                    committed |-> (err = "Ok"), pre |-> Accounts]
        /\ IF err = "Ok"
           THEN /\ swap_pool' = res.mem
                /\ token_a_vault_amount' = l.a
                /\ token_b_vault_amount' = l.b
                /\ lp_mint_supply' = l.supply
                /\ user_lp_token_amount' = l.lp
           ELSE UNCHANGED <<swap_pool, token_a_vault_amount,
                            token_b_vault_amount, lp_mint_supply,
                            user_lp_token_amount>>

\* The host's end of an instruction.  On success the in-memory pool is
\* written back only when the Accounts struct declares swap_pool mut, and
\* the issued calls take effect; on any failure the whole instruction is
\* rolled back.
Finish(op, caller, args, res, is_mut) ==
    LET l == ApplyEffects(Ledger, res.effects, caller)
        err == IF res.err # "Ok" THEN res.err
               ELSE IF l.ok THEN "Ok" ELSE "TokenError"
    IN  /\ last' = [op |-> op, caller |-> caller, args |-> args, err |-> err,
                    effects |-> res.effects, mem |-> res.mem, ret |-> res.ret,
                    committed |-> (err = "Ok"), pre |-> Accounts]
        /\ IF err = "Ok"
           THEN /\ swap_pool' = IF is_mut THEN res.mem ELSE swap_pool
                /\ token_a_vault_amount' = l.a
                /\ token_b_vault_amount' = l.b
                /\ lp_mint_supply' = l.supply
                /\ user_lp_token_amount' = l.lp
           ELSE UNCHANGED <<swap_pool, token_a_vault_amount,
                            token_b_vault_amount, lp_mint_supply,
                            user_lp_token_amount>>

\* A state-changing instruction counts against MaxOps when it commits.
Counted(op, caller, args, res, is_mut) ==
    /\ nops < MaxOps
    /\ idle < MaxIdle
    /\ Finish(op, caller, args, res, is_mut)
    /\ nops' = IF last'.committed THEN nops + 1 ELSE nops
    /\ idle' = IF last'.committed THEN 0 ELSE idle + 1

\* A read-only instruction.
Query(op, caller, args, res) ==
    /\ idle < MaxIdle
    /\ Finish(op, caller, args, res, FALSE)
    /\ UNCHANGED nops
    /\ idle' = idle + 1

\* --------------------------------------------------------- initialize_pool

initialize_pool(p, token_a_mint, token_b_mint, admin, fee_rate, bump) ==
    IF ~(fee_rate <= MAX_FEE_RATE) THEN Result("FeeTooHigh", p, <<>>, <<>>)
    ELSE Result("Ok",
                [p EXCEPT !.token_a_mint = token_a_mint,
                          !.token_b_mint = token_b_mint,
                          !.token_b_vault = "token_b_vault",
                          !.lp_mint = "lp_mint",
                          !.pool_authority = "pool_authority",
                          !.fee_rate = fee_rate,
                          !.bump = bump,
                          !.is_paused = FALSE,
                          !.admin = admin,
                          !.total_fees_a = 0,
                          !.total_fees_b = 0],
                <<>>, <<>>)

\* InitializePool: swap_pool is `init`, so the account must not exist yet.
InitializePool ==
    /\ ~initialized
    /\ \E admin \in Initializers, mints \in MintPairs, fee_rate \in InitFeeRates :
         LET res == initialize_pool(SwapPool, mints[1], mints[2], admin,
                                    fee_rate, 255)
         IN  /\ Counted("initialize_pool", admin,
                        [fee_rate |-> fee_rate, bump |-> 255,
                         token_a_mint |-> mints[1], token_b_mint |-> mints[2]],
                        res, TRUE)
             /\ initialized' = last'.committed

\* ------------------------------------------------------------- admin guard

\* Mutant: a call with paused = TRUE flips the flag instead of setting it.
set_paused_toggle(p, admin, paused) ==
    IF ~(admin = p.admin) THEN Result("Unauthorized", p, <<>>, <<>>)
    ELSE Result("Ok", [p EXCEPT !.is_paused = IF paused THEN ~p.is_paused ELSE FALSE],
                <<>>, <<>>)

set_paused(p, admin, paused) ==
    IF ~(admin = p.admin) THEN Result("Unauthorized", p, <<>>, <<>>)
    ELSE Result("Ok", [p EXCEPT !.is_paused = paused], <<>>, <<>>)

\* Mutant: the new rate is stored in the neighbouring u64 field.
update_fee_rate_wrong_field(p, admin, new_fee_rate) ==
    IF ~(admin = p.admin) THEN Result("Unauthorized", p, <<>>, <<>>)
    ELSE IF ~(new_fee_rate <= MAX_FEE_RATE) THEN Result("FeeTooHigh", p, <<>>, <<>>)
    ELSE Result("Ok", [p EXCEPT !.total_fees_a = new_fee_rate], <<>>, <<>>)

\* Mutant: the new rate is stored without the bound.
update_fee_rate_unbounded(p, admin, new_fee_rate) ==
    IF ~(admin = p.admin) THEN Result("Unauthorized", p, <<>>, <<>>)
    ELSE Result("Ok", [p EXCEPT !.fee_rate = new_fee_rate], <<>>, <<>>)

update_fee_rate(p, admin, new_fee_rate) ==
    IF ~(admin = p.admin) THEN Result("Unauthorized", p, <<>>, <<>>)
    ELSE IF ~(new_fee_rate <= MAX_FEE_RATE) THEN Result("FeeTooHigh", p, <<>>, <<>>)
    ELSE Result("Ok", [p EXCEPT !.fee_rate = new_fee_rate], <<>>, <<>>)

\* Mutant: the hand-over is accepted but the admin is not replaced.
transfer_admin_ignored(p, admin, new_admin) ==
    IF ~(admin = p.admin) THEN Result("Unauthorized", p, <<>>, <<>>)
    ELSE Result("Ok", p, <<>>, <<>>)

\* Mutant: any signer may hand the pool over.
transfer_admin_unchecked(p, admin, new_admin) ==
    Result("Ok", [p EXCEPT !.admin = new_admin], <<>>, <<>>)

transfer_admin(p, admin, new_admin) ==
    IF ~(admin = p.admin) THEN Result("Unauthorized", p, <<>>, <<>>)
    ELSE Result("Ok", [p EXCEPT !.admin = new_admin], <<>>, <<>>)

SetPaused ==
    /\ initialized
    /\ \E admin \in Keys, paused \in BOOLEAN :
         Counted("set_paused", admin, [paused |-> paused],
                 set_paused(swap_pool, admin, paused), TRUE)
    /\ UNCHANGED initialized

UpdateFeeRate ==
    /\ initialized
    /\ \E admin \in Keys, new_fee_rate \in NewFeeRates :
         Counted("update_fee_rate", admin, [new_fee_rate |-> new_fee_rate],
                 update_fee_rate(swap_pool, admin, new_fee_rate), TRUE)
    /\ UNCHANGED initialized

TransferAdmin ==
    /\ initialized
    /\ \E admin \in Keys, new_admin \in Keys :
         Counted("transfer_admin", admin, [new_admin |-> new_admin],
                 transfer_admin(swap_pool, admin, new_admin), TRUE)
    /\ UNCHANGED initialized

\* ------------------------------------------------------------ collect_fees

\* Mutant: both payouts are issued even for a zero counter.
collect_fees_unskipped(p, fee_collector) ==
    IF ~(fee_collector = p.admin) THEN Result("Unauthorized", p, <<>>, <<>>)
    ELSE Result("Ok", [p EXCEPT !.total_fees_a = 0, !.total_fees_b = 0],
                <<Transfer("token_a_vault", "fee_collector_token_a", p.total_fees_a),
                  Transfer("token_b_vault", "fee_collector_token_b", p.total_fees_b)>>,
                <<>>)

collect_fees(p, fee_collector) ==
    IF ~(fee_collector = p.admin) THEN Result("Unauthorized", p, <<>>, <<>>)
    ELSE
        LET fee_amount_a == p.total_fees_a
            fee_amount_b == p.total_fees_b
            mem == [p EXCEPT !.total_fees_a = 0, !.total_fees_b = 0]
            pay_a == IF fee_amount_a > 0
                     THEN <<Transfer("token_a_vault", "fee_collector_token_a",
                                     fee_amount_a)>>
                     ELSE <<>>
            pay_b == IF fee_amount_b > 0
                     THEN <<Transfer("token_b_vault", "fee_collector_token_b",
                                     fee_amount_b)>>
                     ELSE <<>>
        IN  Result("Ok", mem, pay_a \o pay_b, <<>>)

CollectFees ==
    /\ initialized
    /\ \E fee_collector \in Keys :
         Counted("collect_fees", fee_collector, <<>>,
                 collect_fees(swap_pool, fee_collector), TRUE)
    /\ UNCHANGED initialized

\* --------------------------------------------------- add_initial_liquidity

RECURSIVE isqrt_between(_, _, _)
isqrt_between(n, lo, hi) ==
    IF lo >= hi THEN lo
    ELSE LET mid == (lo + hi + 1) \div 2
         IN  IF mid * mid <= n THEN isqrt_between(n, mid, hi)
             ELSE isqrt_between(n, lo, mid - 1)

isqrt(n) == isqrt_between(n, 0, U64_MAX + 1)

\* Small amounts whose two correctly rounded double-precision roots multiply
\* to just below the exact root of the product: sqrt(3) * sqrt(3) is
\* 2.9999999999999996 and sqrt(3) * sqrt(12) is 5.999999999999999.
F64ProductBelowRoot == {<<3, 3>>, <<3, 12>>, <<6, 6>>, <<6, 24>>, <<12, 12>>}

\* ((amount_a as f64).sqrt() * (amount_b as f64).sqrt()) as u64: the values
\* the double-precision product can truncate to.  Two exact roots multiply
\* exactly; when only the product is a perfect square the two rounded roots
\* multiply to it or to just below it.
initial_lp_tokens(amount_a, amount_b) ==
    LET r == isqrt(amount_a * amount_b)
        ra == isqrt(amount_a)
        rb == isqrt(amount_b)
    IN  IF ra * ra = amount_a /\ rb * rb = amount_b THEN {ra * rb}
        ELSE IF r * r = amount_a * amount_b
        THEN IF <<amount_a, amount_b>> \in F64ProductBelowRoot THEN {r - 1}
             ELSE {r - 1, r}
        ELSE {r}

add_initial_liquidity(p, amount_a, amount_b, initial_lp) ==
    IF ~(amount_a > 0 /\ amount_b > 0) THEN Result("InvalidAmount", p, <<>>, <<>>)
    ELSE Result("Ok", p,
                <<Transfer("user_token_a", "token_a_vault", amount_a),
                  Transfer("user_token_b", "token_b_vault", amount_b),
                  MintTo("user_lp_token", initial_lp)>>,
                <<>>)

AddInitialLiquidity ==
    /\ initialized
    /\ \E user \in InitialProviders, amounts \in InitialAmounts :
         \E initial_lp \in initial_lp_tokens(amounts[1], amounts[2]) :
            Counted("add_initial_liquidity", user,
                    [amount_a |-> amounts[1], amount_b |-> amounts[2]],
                    add_initial_liquidity(swap_pool, amounts[1], amounts[2],
                                          initial_lp),
                    TRUE)
    /\ UNCHANGED initialized

\* ----------------------------------------------------------- add_liquidity

\* The counterpart amount at the current reserve ratio.
optimal_amount(amount_desired, reserve_other, reserve_this) ==
    as_u64(wide_mul_div(amount_desired, reserve_other, reserve_this))

\* Mutant: the larger of the two ratio-implied shares is minted.
lp_tokens_to_mint_max(amount_a, amount_b, total_lp_supply, reserve_a, reserve_b) ==
    LET lp_amount_a == as_u64(wide_mul_div(amount_a, total_lp_supply, reserve_a))
        lp_amount_b == as_u64(wide_mul_div(amount_b, total_lp_supply, reserve_b))
    IN  IF lp_amount_a >= lp_amount_b THEN lp_amount_a ELSE lp_amount_b

lp_tokens_to_mint(amount_a, amount_b, total_lp_supply, reserve_a, reserve_b) ==
    LET lp_amount_a == as_u64(wide_mul_div(amount_a, total_lp_supply, reserve_a))
        lp_amount_b == as_u64(wide_mul_div(amount_b, total_lp_supply, reserve_b))
    IN  Min(lp_amount_a, lp_amount_b)

add_liquidity(p, reserve_a, reserve_b, total_lp_supply, amount_a_desired, amount_b_desired, amount_a_min, amount_b_min) ==
    IF ~not_paused(p) THEN Result("PoolPaused", p, <<>>, <<>>)
    ELSE IF ~(amount_a_desired > 0 /\ amount_b_desired > 0)
    THEN Result("InvalidAmount", p, <<>>, <<>>)
    ELSE IF ~(reserve_a > 0 /\ reserve_b > 0)
    THEN Result("InsufficientLiquidity", p, <<>>, <<>>)
    ELSE
        LET amount_b_optimal == optimal_amount(amount_a_desired, reserve_b, reserve_a)
            amount_a_optimal == optimal_amount(amount_b_desired, reserve_a, reserve_b)
            first == amount_b_desired >= amount_b_optimal
            amount_a == IF first THEN amount_a_desired ELSE amount_a_optimal
            amount_b == IF first THEN amount_b_optimal ELSE amount_b_desired
            slipped == IF first THEN ~(amount_b >= amount_b_min)
                       ELSE ~(amount_a >= amount_a_min)
            lp_to_mint == lp_tokens_to_mint(amount_a, amount_b, total_lp_supply,
                                            reserve_a, reserve_b)
        IN  IF slipped THEN Result("SlippageExceeded", p, <<>>, <<>>)
            ELSE Result("Ok", p,
                        <<Transfer("user_token_a", "token_a_vault", amount_a),
                          Transfer("user_token_b", "token_b_vault", amount_b),
                          MintTo("user_lp_token", lp_to_mint)>>,
                        <<>>)

AddLiquidity ==
    /\ initialized
    /\ \E user \in Keys, a \in AddLiquidityArgs :
         Counted("add_liquidity", user,
                 [amount_a_desired |-> a[1], amount_b_desired |-> a[2],
                  amount_a_min |-> a[3], amount_b_min |-> a[4]],
                 add_liquidity(swap_pool, token_a_vault_amount,
                               token_b_vault_amount, lp_mint_supply,
                               a[1], a[2], a[3], a[4]),
                 TRUE)
    /\ UNCHANGED initialized

\* -------------------------------------------------------- remove_liquidity

\* Mutant: the share is taken against the supply plus one virtual share.
pro_rata_virtual_share(lp_amount, reserve, total_lp_supply) ==
    as_u64((lp_amount * reserve) \div (total_lp_supply + 1))

\* Mutant: the share is rounded up.
pro_rata_rounded_up(lp_amount, reserve, total_lp_supply) ==
    as_u64((lp_amount * reserve + total_lp_supply - 1) \div total_lp_supply)

\* The share of one reserve that lp_amount redeems.
pro_rata(lp_amount, reserve, total_lp_supply) ==
    as_u64(wide_mul_div(lp_amount, reserve, total_lp_supply))

\* Mutant: a zero lp_amount is not refused.
remove_liquidity_zero_allowed(p, reserve_a, reserve_b, total_lp_supply, lp_amount, amount_a_min, amount_b_min) ==
    IF ~not_paused(p) THEN Result("PoolPaused", p, <<>>, <<>>)
    ELSE IF wide_mul_div(lp_amount, reserve_a, total_lp_supply) = None
    THEN Result("Panic", p, <<>>, <<>>)
    ELSE
        LET amount_a == pro_rata(lp_amount, reserve_a, total_lp_supply)
            amount_b == pro_rata(lp_amount, reserve_b, total_lp_supply)
        IN  IF ~(amount_a >= amount_a_min /\ amount_b >= amount_b_min)
            THEN Result("SlippageExceeded", p, <<>>, <<>>)
            ELSE Result("Ok", p,
                        <<Burn("user_lp_token", lp_amount),
                          Transfer("token_a_vault", "user_token_a", amount_a),
                          Transfer("token_b_vault", "user_token_b", amount_b)>>,
                        <<>>)

remove_liquidity(p, reserve_a, reserve_b, total_lp_supply, lp_amount, amount_a_min, amount_b_min) ==
    IF ~not_paused(p) THEN Result("PoolPaused", p, <<>>, <<>>)
    ELSE IF ~(lp_amount > 0) THEN Result("InvalidAmount", p, <<>>, <<>>)
    ELSE IF wide_mul_div(lp_amount, reserve_a, total_lp_supply) = None
    THEN Result("Panic", p, <<>>, <<>>)
    ELSE
        LET amount_a == pro_rata(lp_amount, reserve_a, total_lp_supply)
            amount_b == pro_rata(lp_amount, reserve_b, total_lp_supply)
        IN  IF ~(amount_a >= amount_a_min) THEN Result("SlippageExceeded", p, <<>>, <<>>)
            ELSE IF ~(amount_b >= amount_b_min)
            THEN Result("SlippageExceeded", p, <<>>, <<>>)
            ELSE Result("Ok", p,
                        <<Burn("user_lp_token", lp_amount),
                          Transfer("token_a_vault", "user_token_a", amount_a),
                          Transfer("token_b_vault", "user_token_b", amount_b)>>,
                        <<>>)

RemoveLiquidity ==
    /\ initialized
    /\ \E user \in Keys, a \in RemoveLiquidityArgs :
         Counted("remove_liquidity", user,
                 [lp_amount |-> a[1], amount_a_min |-> a[2], amount_b_min |-> a[3]],
                 remove_liquidity(swap_pool, token_a_vault_amount,
                                  token_b_vault_amount, lp_mint_supply,
                                  a[1], a[2], a[3]),
                 TRUE)
    /\ UNCHANGED initialized

\* -------------------------------------------------------------------- swap

\* The constraints of the Swap accounts on the two user token accounts.
SwapConstraints(p, user_token_a_mint, user_token_b_mint) ==
    /\ user_token_a_mint = p.token_a_mint
    /\ user_token_b_mint = p.token_b_mint

\* Mutant: the fee taken per mille instead of per ten thousand.
swap_fee_amount_per_mille(amount_to_redeem, fee_rate) ==
    checked_div(checked_mul(amount_to_redeem, fee_rate), 1000)

swap_fee_amount(amount_to_redeem, fee_rate) ==
    checked_div(checked_mul(amount_to_redeem, fee_rate), BPS_DENOMINATOR)

\* Mutant: the minimum must be exceeded, not only met.
min_amount_out_exceeded(final_amount_to_redeem, min_amount_out) ==
    final_amount_to_redeem > min_amount_out

\* require!(final_amount_to_redeem >= min_amount_out, SlippageExceeded)
min_amount_out_met(final_amount_to_redeem, min_amount_out) ==
    final_amount_to_redeem >= min_amount_out

swap(p, token_a_vault, token_b_vault, user_token_a_mint, user_token_b_mint, amount_in, min_amount_out) ==
    IF ~not_paused(p) THEN Result("PoolPaused", p, <<>>, <<>>)
    ELSE IF ~(amount_in > 0) THEN Result("InvalidAmount", p, <<>>, <<>>)
    ELSE IF ~(user_token_a_mint = p.token_a_mint)
            /\ ~(user_token_b_mint = p.token_b_mint)
    THEN Result("InvalidToken", p, <<>>, <<>>)
    ELSE
        LET is_a_to_b == user_token_a_mint = p.token_a_mint
            input_token_account == IF is_a_to_b THEN "user_token_a" ELSE "user_token_b"
            redeem_token_account == IF is_a_to_b THEN "user_token_b" ELSE "user_token_a"
            input_token_vault == IF is_a_to_b THEN "token_a_vault" ELSE "token_b_vault"
            redeem_token_vault == IF is_a_to_b THEN "token_b_vault" ELSE "token_a_vault"
            input_token_vault_amount ==
                IF is_a_to_b THEN token_a_vault ELSE token_b_vault
            redeem_token_vault_amount ==
                IF is_a_to_b THEN token_b_vault ELSE token_a_vault
            new_input_token_vault_amount ==
                checked_add(input_token_vault_amount, amount_in)
            new_redeem_token_vault_amount ==
                checked_div(checked_mul(input_token_vault_amount,
                                        redeem_token_vault_amount),
                            new_input_token_vault_amount)
            amount_to_redeem ==
                checked_sub(redeem_token_vault_amount, new_redeem_token_vault_amount)
            fee_amount == swap_fee_amount(amount_to_redeem, p.fee_rate)
            final_amount_to_redeem == checked_sub(amount_to_redeem, fee_amount)
            total_fees == IF is_a_to_b THEN checked_add(p.total_fees_b, fee_amount)
                          ELSE checked_add(p.total_fees_a, fee_amount)
            mem == IF is_a_to_b THEN [p EXCEPT !.total_fees_b = total_fees]
                   ELSE [p EXCEPT !.total_fees_a = total_fees]
        IN  IF final_amount_to_redeem = None \/ total_fees = None
            THEN Result("InvalidAmount", p, <<>>, <<>>)
            ELSE IF ~min_amount_out_met(final_amount_to_redeem, min_amount_out)
            THEN Result("SlippageExceeded", mem, <<>>, <<>>)
            ELSE Result("Ok", mem,
                        <<Transfer(input_token_account, input_token_vault, amount_in),
                          Transfer(redeem_token_vault, redeem_token_account,
                                   final_amount_to_redeem)>>,
                        <<>>)

\* Swap: swap_pool is not declared mut, so the handler's writes to it are
\* not written back to the account.
Swap ==
    /\ initialized
    /\ \E user \in Traders, mints \in UserAccountMints, a \in SwapArgs :
         Counted("swap", user,
                 [amount_in |-> a[1], min_amount_out |-> a[2],
                  user_token_a_mint |-> mints[1], user_token_b_mint |-> mints[2]],
                 IF SwapConstraints(swap_pool, mints[1], mints[2])
                 THEN swap(swap_pool, token_a_vault_amount, token_b_vault_amount,
                           mints[1], mints[2], a[1], a[2])
                 ELSE Result("ConstraintRaw", swap_pool, <<>>, <<>>),
                 FALSE)
    /\ UNCHANGED initialized

\* ---------------------------------------------------------------- queries

\* ((amount as u128) * 1_000_000 / (base as u128)) as u64, base > 0.  The
\* product is formed in two steps of 1000 so that every intermediate stays in
\* the range the checker computes in; the value is that of the one division.
scaled_price(amount, base) ==
    LET q1 == (amount * 1000) \div base
        r1 == (amount * 1000) % base
    IN  as_u64(as_u64(q1) * (PRICE_SCALE \div 1000) + (r1 * 1000) \div base)

get_token_a_price(token_a_amount, token_b_amount) ==
    IF ~(token_a_amount > 0) THEN Result("InsufficientLiquidity", swap_pool, <<>>, <<>>)
    ELSE Result("Ok", swap_pool, <<>>,
                <<scaled_price(token_b_amount, token_a_amount)>>)

get_token_b_price(token_a_amount, token_b_amount) ==
    IF ~(token_b_amount > 0) THEN Result("InsufficientLiquidity", swap_pool, <<>>, <<>>)
    ELSE Result("Ok", swap_pool, <<>>,
                <<scaled_price(token_a_amount, token_b_amount)>>)

get_pool_stats(token_a_amount, token_b_amount, lp_supply) ==
    Result("Ok", swap_pool, <<>>, <<token_a_amount, token_b_amount, lp_supply>>)

\* Mutant: the simulation also issues the two transfers of the swap.
calculate_swap_result_executing(p, token_a_vault, token_b_vault, amount_in, is_a_to_b) ==
    LET source_amount == IF is_a_to_b THEN token_a_vault ELSE token_b_vault
        destination_amount == IF is_a_to_b THEN token_b_vault ELSE token_a_vault
        new_source_amount == checked_add(source_amount, amount_in)
        constant_product == checked_mul(source_amount, destination_amount)
        new_destination_amount == checked_div(constant_product, new_source_amount)
        output_amount == checked_sub(destination_amount, new_destination_amount)
        fee_amount == checked_div(checked_mul(output_amount, p.fee_rate),
                                  BPS_DENOMINATOR)
        final_output_amount == checked_sub(output_amount, fee_amount)
    IN  IF final_output_amount = None THEN Result("CalculationFailure", p, <<>>, <<>>)
        ELSE Result("Ok", p,
                    <<Transfer(IF is_a_to_b THEN "user_token_a" ELSE "user_token_b",
                               IF is_a_to_b THEN "token_a_vault" ELSE "token_b_vault",
                               amount_in),
                      Transfer(IF is_a_to_b THEN "token_b_vault" ELSE "token_a_vault",
                               IF is_a_to_b THEN "user_token_b" ELSE "user_token_a",
                               final_output_amount)>>,
                    <<final_output_amount>>)

calculate_swap_result(p, token_a_vault, token_b_vault, amount_in, is_a_to_b) ==
    LET source_amount == IF is_a_to_b THEN token_a_vault ELSE token_b_vault
        destination_amount == IF is_a_to_b THEN token_b_vault ELSE token_a_vault
        new_source_amount == checked_add(source_amount, amount_in)
        constant_product == checked_mul(source_amount, destination_amount)
        new_destination_amount == checked_div(constant_product, new_source_amount)
        output_amount == checked_sub(destination_amount, new_destination_amount)
        fee_amount == checked_div(checked_mul(output_amount, p.fee_rate),
                                  BPS_DENOMINATOR)
        final_output_amount == checked_sub(output_amount, fee_amount)
    IN  IF final_output_amount = None THEN Result("CalculationFailure", p, <<>>, <<>>)
        ELSE Result("Ok", p, <<>>, <<final_output_amount>>)

\* Placeholder in the source: no volume is tracked.
get_pool_volume(p) == Result("Ok", p, <<>>, <<0, 0>>)

get_user_pool_share(p, token_a_vault, token_b_vault, lp_total_supply, user_lp_balance) ==
    LET user_share_percentage ==
            IF lp_total_supply = 0 THEN 0
            ELSE scaled_price(user_lp_balance, lp_total_supply)
        user_token_a_share ==
            IF lp_total_supply = 0 THEN 0
            ELSE as_u64(wide_mul_div(user_lp_balance, token_a_vault, lp_total_supply))
        user_token_b_share ==
            IF lp_total_supply = 0 THEN 0
            ELSE as_u64(wide_mul_div(user_lp_balance, token_b_vault, lp_total_supply))
    IN  Result("Ok", p, <<>>,
               <<user_share_percentage, user_token_a_share, user_token_b_share>>)

GetTokenAPrice ==
    /\ initialized
    /\ Query("get_token_a_price", DefaultKey, <<>>,
             get_token_a_price(token_a_vault_amount, token_b_vault_amount))
    /\ UNCHANGED initialized

GetTokenBPrice ==
    /\ initialized
    /\ Query("get_token_b_price", DefaultKey, <<>>,
             get_token_b_price(token_a_vault_amount, token_b_vault_amount))
    /\ UNCHANGED initialized

GetPoolStats ==
    /\ initialized
    /\ Query("get_pool_stats", DefaultKey, <<>>,
             get_pool_stats(token_a_vault_amount, token_b_vault_amount,
                            lp_mint_supply))
    /\ UNCHANGED initialized

CalculateSwapResult ==
    /\ initialized
    /\ \E amount_in \in SwapAmounts, is_a_to_b \in BOOLEAN :
         Query("calculate_swap_result", DefaultKey,
               [amount_in |-> amount_in, is_a_to_b |-> is_a_to_b],
               calculate_swap_result(swap_pool, token_a_vault_amount,
                                     token_b_vault_amount, amount_in, is_a_to_b))
    /\ UNCHANGED initialized

GetPoolVolume ==
    /\ initialized
    /\ Query("get_pool_volume", DefaultKey, <<>>, get_pool_volume(swap_pool))
    /\ UNCHANGED initialized

GetUserPoolShare ==
    /\ initialized
    /\ \E user_authority \in Keys :
         Query("get_user_pool_share", user_authority, <<>>,
               get_user_pool_share(swap_pool, token_a_vault_amount,
                                   token_b_vault_amount, lp_mint_supply,
                                   user_lp_token_amount[user_authority]))
    /\ UNCHANGED initialized

\* ---------------------------------------------------------- specification

Next ==
    \/ InitializePool
    \/ AddInitialLiquidity
    \/ AddLiquidity
    \/ RemoveLiquidity
    \/ Swap
    \/ CollectFees
    \/ SetPaused
    \/ UpdateFeeRate
    \/ TransferAdmin
    \/ GetTokenAPrice
    \/ GetTokenBPrice
    \/ GetPoolStats
    \/ CalculateSwapResult
    \/ GetPoolVolume
    \/ GetUserPoolShare

Spec == Init /\ [][Next]_vars

\* ------------------------------------------------------------------ claims
\* The claims are stated over `last`, which holds the accounts as the last
\* instruction found them (last.pre), its arguments, its result and the
\* token-program calls it issued, and over the accounts as they are now.

\* Nothing the instruction could touch differs from what it found.
NothingChanged == Accounts = last.pre

\* The pricing formula in unbounded integers.
PriceGross(input_reserve, output_reserve, amount_in) ==
    output_reserve - ((input_reserve * output_reserve) \div (input_reserve + amount_in))
PriceFee(gross_out, fee_rate_bps) == (gross_out * fee_rate_bps) \div 10000
PriceNet(input_reserve, output_reserve, fee_rate_bps, amount_in) ==
    PriceGross(input_reserve, output_reserve, amount_in)
    - PriceFee(PriceGross(input_reserve, output_reserve, amount_in), fee_rate_bps)

\* The last swap's source account holds asset A (it sells A for B).
SellsA == last.args.user_token_a_mint = last.pre.swap_pool.token_a_mint
InputReserve == IF SellsA THEN last.pre.token_a_vault ELSE last.pre.token_b_vault
OutputReserve == IF SellsA THEN last.pre.token_b_vault ELSE last.pre.token_a_vault
InputVaultNow == IF SellsA THEN token_a_vault_amount ELSE token_b_vault_amount
OutputVaultNow == IF SellsA THEN token_b_vault_amount ELSE token_a_vault_amount
OutputFeesBefore == IF SellsA THEN last.pre.swap_pool.total_fees_b
                    ELSE last.pre.swap_pool.total_fees_a
SwapTransfers(net_out) ==
    IF SellsA
    THEN <<Transfer("user_token_a", "token_a_vault", last.args.amount_in),
           Transfer("token_b_vault", "user_token_b", net_out)>>
    ELSE <<Transfer("user_token_b", "token_b_vault", last.args.amount_in),
           Transfer("token_a_vault", "user_token_a", net_out)>>
LastGross == PriceGross(InputReserve, OutputReserve, last.args.amount_in)
LastFee == PriceFee(LastGross, last.pre.swap_pool.fee_rate)
LastNet == LastGross - LastFee

\* No step of the swap's u64 arithmetic leaves the word.
SwapFitsWord ==
    /\ InputReserve + last.args.amount_in <= U64_MAX
    /\ InputReserve * OutputReserve <= U64_MAX
    /\ LastGross * last.pre.swap_pool.fee_rate <= U64_MAX
    /\ OutputFeesBefore + LastFee <= U64_MAX

\* C1: a successful swap moves exactly amount_in from the trader into the
\* input vault and exactly net_out = gross_out - fee from the output vault to
\* the trader, gross_out = output_reserve - floor(input_reserve *
\* output_reserve / (input_reserve + amount_in)), fee = floor(gross_out *
\* fee_rate_bps / 10000); the fee is not moved and stays in the output vault.
C1_SwapMovesExactAmounts ==
    (last.op = "swap" /\ last.committed) =>
        /\ ~last.pre.swap_pool.is_paused
        /\ last.args.amount_in > 0
        /\ last.effects = SwapTransfers(LastNet)
        /\ InputVaultNow = InputReserve + last.args.amount_in
        /\ OutputVaultNow = OutputReserve - LastNet
        /\ OutputVaultNow = (OutputReserve - LastGross) + LastFee
        /\ lp_mint_supply = last.pre.lp_mint
        /\ user_lp_token_amount = last.pre.user_lp_token

C1_Witness ==
    /\ last.op = "swap" /\ last.committed
    /\ last.pre.token_a_vault = 100 /\ last.pre.token_b_vault = 100
    /\ last.pre.swap_pool.fee_rate = 1000 /\ last.args.amount_in = 20
    /\ LastFee = 1
    /\ token_a_vault_amount = 120 /\ token_b_vault_amount = 84

\* C2: a swap whose other guards pass succeeds if and only if net_out >=
\* min_amount_out; with net_out < min_amount_out it fails with
\* SlippageExceeded, issues no transfer and changes nothing.
C2_SwapSlippage ==
    (/\ last.op = "swap"
     /\ SwapConstraints(last.pre.swap_pool, last.args.user_token_a_mint,
                        last.args.user_token_b_mint)
     /\ ~last.pre.swap_pool.is_paused
     /\ last.args.amount_in > 0
     /\ SwapFitsWord) =>
        IF LastNet >= last.args.min_amount_out
        THEN last.err = "Ok" /\ last.committed
        ELSE /\ last.err = "SlippageExceeded"
             /\ last.effects = <<>>
             /\ NothingChanged

C2_Witness ==
    /\ last.op = "swap" /\ last.err = "SlippageExceeded"
    /\ last.args.min_amount_out = 17 /\ LastNet = 16
    /\ last.pre.token_a_vault = 100 /\ last.pre.token_b_vault = 100

\* C3 (as specified): after every successful swap the persisted fee counter of
\* the output asset has grown by exactly the fee of that swap and the
\* counter of the input asset is unchanged.
C3_FeeCounterCredited ==
    (last.op = "swap" /\ last.committed) =>
        IF SellsA
        THEN /\ swap_pool.total_fees_b = last.pre.swap_pool.total_fees_b + LastFee
             /\ swap_pool.total_fees_a = last.pre.swap_pool.total_fees_a
        ELSE /\ swap_pool.total_fees_a = last.pre.swap_pool.total_fees_a + LastFee
             /\ swap_pool.total_fees_b = last.pre.swap_pool.total_fees_b

\* C4 (as specified): a swap whose source account holds asset B, on an
\* unpaused pool and with its other guards passing, takes vault B as the
\* input reserve and vault A as the output reserve and pays the trader in A.
C4_SwapSellsB ==
    (/\ last.op = "swap"
     /\ last.args.user_token_a_mint = last.pre.swap_pool.token_b_mint
     /\ last.pre.token_a_vault > 0 /\ last.pre.token_b_vault > 0
     /\ ~last.pre.swap_pool.is_paused
     /\ last.args.amount_in > 0
     /\ SwapFitsWord
     /\ LastNet >= last.args.min_amount_out) =>
        /\ last.committed
        /\ last.effects =
              <<Transfer("user_token_b", "token_b_vault", last.args.amount_in),
                Transfer("token_a_vault", "user_token_a", LastNet)>>

AdminCall == last.caller = last.pre.swap_pool.admin
Rejected(err) == last.err = err /\ last.effects = <<>> /\ NothingChanged

\* C5: while paused is true, add_liquidity, remove_liquidity and swap fail
\* with PoolPaused and change nothing; set_paused, update_fee_rate,
\* transfer_admin and collect_fees by the admin still succeed (so the admin
\* can unpause), and no read-only query is refused because of the pause.
C5_PauseGating ==
    last.pre.swap_pool.is_paused =>
        /\ last.op \in {"add_liquidity", "remove_liquidity"} => Rejected("PoolPaused")
        /\ (/\ last.op = "swap"
            /\ SwapConstraints(last.pre.swap_pool, last.args.user_token_a_mint,
                               last.args.user_token_b_mint)) => Rejected("PoolPaused")
        /\ (last.op \in {"set_paused", "transfer_admin", "collect_fees"} /\ AdminCall)
              => last.committed
        /\ (last.op = "update_fee_rate" /\ AdminCall /\ last.args.new_fee_rate <= 1000)
              => last.committed
        /\ (last.op = "set_paused" /\ AdminCall)
              => swap_pool.is_paused = last.args.paused
        /\ last.op = "get_pool_stats" =>
              /\ last.err = "Ok"
              /\ last.ret = <<last.pre.token_a_vault, last.pre.token_b_vault,
                              last.pre.lp_mint>>
        /\ last.op = "get_token_a_price" => (last.err = "Ok" <=> last.pre.token_a_vault > 0)
        /\ last.op = "get_token_b_price" => (last.err = "Ok" <=> last.pre.token_b_vault > 0)
        /\ last.op \in {"get_pool_volume", "get_user_pool_share"} => last.err = "Ok"
        /\ last.op \in {"get_pool_stats", "get_token_a_price", "get_token_b_price",
                         "calculate_swap_result", "get_pool_volume",
                         "get_user_pool_share"} =>
              last.err # "PoolPaused" /\ NothingChanged

C5_Witness ==
    /\ last.op = "swap" /\ last.err = "PoolPaused"
    /\ last.pre.swap_pool.is_paused
    /\ last.pre.token_a_vault = 100 /\ last.pre.token_b_vault = 100
    /\ last.args.amount_in = 20 /\ last.args.min_amount_out = 0

\* C6: for every caller other than the current admin, collect_fees,
\* set_paused, update_fee_rate and transfer_admin fail with Unauthorized and
\* leave the pool account, both vaults and the LP supply unchanged.
C6_UnauthorizedRejected ==
    (/\ last.op \in {"collect_fees", "set_paused", "update_fee_rate", "transfer_admin"}
     /\ ~AdminCall) => Rejected("Unauthorized") /\ ~last.committed

C6_Witness ==
    /\ last.op = "transfer_admin" /\ last.err = "Unauthorized"
    /\ last.caller = "alice" /\ swap_pool.admin = "bob"

\* C7: fee_rate <= 1000 in every reachable state; initialize_pool and
\* update_fee_rate reject a rate above 1000 with FeeTooHigh and store
\* nothing, accept every rate up to 1000, and no other instruction changes
\* fee_rate.
C7_FeeRateBound ==
    /\ swap_pool.fee_rate <= 1000
    /\ last.op = "initialize_pool" =>
          IF last.args.fee_rate > 1000
          THEN Rejected("FeeTooHigh") /\ ~initialized
          ELSE last.committed /\ swap_pool.fee_rate = last.args.fee_rate
    /\ (last.op = "update_fee_rate" /\ AdminCall) =>
          IF last.args.new_fee_rate > 1000
          THEN Rejected("FeeTooHigh")
          ELSE last.committed /\ swap_pool.fee_rate = last.args.new_fee_rate
    /\ (last.op = "update_fee_rate" /\ ~AdminCall) => NothingChanged
    /\ last.op \notin {"initialize_pool", "update_fee_rate"} =>
          swap_pool.fee_rate = last.pre.swap_pool.fee_rate

C7_Witness ==
    /\ last.op = "update_fee_rate" /\ last.err = "FeeTooHigh"
    /\ last.args.new_fee_rate = 1001 /\ swap_pool.fee_rate = 1000

\* The last add_liquidity's inputs and the amounts the reserve ratio implies.
ReserveA == last.pre.token_a_vault
ReserveB == last.pre.token_b_vault
Supply == last.pre.lp_mint
OptimalB == (last.args.amount_a_desired * ReserveB) \div ReserveA
OptimalA == (last.args.amount_b_desired * ReserveA) \div ReserveB
Deposited(amount_a, amount_b) ==
    /\ last.committed
    /\ Len(last.effects) = 3
    /\ last.effects[1] = Transfer("user_token_a", "token_a_vault", amount_a)
    /\ last.effects[2] = Transfer("user_token_b", "token_b_vault", amount_b)
    /\ token_a_vault_amount = ReserveA + amount_a
    /\ token_b_vault_amount = ReserveB + amount_b

\* C8 (as specified): add_liquidity on an unpaused pool with positive reserves
\* and optimal_b = floor(amount_a_desired * reserve_b / reserve_a): if
\* amount_b_desired >= optimal_b it deposits (amount_a_desired, optimal_b),
\* failing SlippageExceeded when optimal_b < amount_b_min; otherwise it
\* deposits (floor(amount_b_desired * reserve_a / reserve_b),
\* amount_b_desired), failing SlippageExceeded when that is < amount_a_min.
C8_AddLiquidityAmounts ==
    (/\ last.op = "add_liquidity"
     /\ ~last.pre.swap_pool.is_paused
     /\ last.args.amount_a_desired > 0 /\ last.args.amount_b_desired > 0
     /\ ReserveA > 0 /\ ReserveB > 0) =>
        IF last.args.amount_b_desired >= OptimalB
        THEN IF OptimalB < last.args.amount_b_min
             THEN Rejected("SlippageExceeded")
             ELSE Deposited(last.args.amount_a_desired, OptimalB)
        ELSE IF OptimalA < last.args.amount_a_min
             THEN Rejected("SlippageExceeded")
             ELSE Deposited(OptimalA, last.args.amount_b_desired)

C10_RemoveLiquidity ==
    /\ (last.op = "remove_liquidity" /\ last.committed) =>
          LET amount_a == (last.args.lp_amount * ReserveA) \div Supply
              amount_b == (last.args.lp_amount * ReserveB) \div Supply
          IN  /\ last.effects =
                    <<Burn("user_lp_token", last.args.lp_amount),
                      Transfer("token_a_vault", "user_token_a", amount_a),
                      Transfer("token_b_vault", "user_token_b", amount_b)>>
              /\ lp_mint_supply = Supply - last.args.lp_amount
              /\ user_lp_token_amount =
                    [last.pre.user_lp_token EXCEPT
                       ![last.caller] = @ - last.args.lp_amount]
              /\ token_a_vault_amount = ReserveA - amount_a
              /\ token_b_vault_amount = ReserveB - amount_b
    /\ (/\ last.op = "remove_liquidity"
        /\ ~last.pre.swap_pool.is_paused
        /\ last.args.lp_amount > 0
        /\ Supply > 0
        /\ \/ (last.args.lp_amount * ReserveA) \div Supply < last.args.amount_a_min
           \/ (last.args.lp_amount * ReserveB) \div Supply < last.args.amount_b_min)
          => Rejected("SlippageExceeded")

C10_Witness ==
    /\ last.op = "remove_liquidity" /\ last.committed
    /\ ReserveA = 120 /\ ReserveB = 84 /\ Supply = 100
    /\ last.args.lp_amount = 10
    /\ token_a_vault_amount = 108 /\ token_b_vault_amount = 76

\* C11: with LP supply > 0 on an unpaused pool, remove_liquidity with
\* lp_amount equal to the whole LP supply and zero minimums computes exactly
\* amount_a = reserve_a and amount_b = reserve_b; it succeeds when the caller
\* holds the whole supply, and then both vaults and the LP supply are zero.
C11_RemoveAllReturnsReserves ==
    (/\ last.op = "remove_liquidity"
     /\ ~last.pre.swap_pool.is_paused
     /\ Supply > 0
     /\ last.args.lp_amount = Supply
     /\ last.args.amount_a_min = 0 /\ last.args.amount_b_min = 0) =>
        /\ last.effects = <<Burn("user_lp_token", Supply),
                            Transfer("token_a_vault", "user_token_a", ReserveA),
                            Transfer("token_b_vault", "user_token_b", ReserveB)>>
        /\ last.committed <=> last.pre.user_lp_token[last.caller] = Supply
        /\ last.committed =>
              /\ token_a_vault_amount = 0
              /\ token_b_vault_amount = 0
              /\ lp_mint_supply = 0
              /\ user_lp_token_amount[last.caller] = 0

C11_Witness ==
    /\ last.op = "remove_liquidity" /\ last.committed
    /\ Supply = 100 /\ last.args.lp_amount = 100
    /\ ReserveA = 120 /\ ReserveB = 84
    /\ token_a_vault_amount = 0 /\ token_b_vault_amount = 0
    /\ lp_mint_supply = 0

\* The payout collect_fees owes for one counter: nothing for a zero counter.
Payout(vault, account, fee_amount) ==
    IF fee_amount > 0 THEN <<Transfer(vault, account, fee_amount)>> ELSE <<>>

\* C12: a successful collect_fees is the admin's, leaves total_fees_a = 0
\* and total_fees_b = 0, takes exactly the previous total_fees_a out of
\* vault A into the caller's receiving account (likewise for B), and issues
\* no transfer for a counter that was zero.
C12_CollectFeesPaysCounters ==
    (last.op = "collect_fees" /\ last.committed) =>
        LET fee_amount_a == last.pre.swap_pool.total_fees_a
            fee_amount_b == last.pre.swap_pool.total_fees_b
        IN  /\ AdminCall
            /\ swap_pool = [last.pre.swap_pool EXCEPT !.total_fees_a = 0,
                                                      !.total_fees_b = 0]
            /\ last.effects =
                  Payout("token_a_vault", "fee_collector_token_a", fee_amount_a)
                  \o Payout("token_b_vault", "fee_collector_token_b", fee_amount_b)
            /\ token_a_vault_amount = ReserveA - fee_amount_a
            /\ token_b_vault_amount = ReserveB - fee_amount_b
            /\ lp_mint_supply = Supply
            /\ user_lp_token_amount = last.pre.user_lp_token

C12_Witness ==
    /\ last.op = "collect_fees" /\ last.committed
    /\ last.pre.swap_pool.total_fees_a = 0 /\ last.pre.swap_pool.total_fees_b = 0
    /\ last.effects = <<>>
    /\ token_a_vault_amount = 120 /\ token_b_vault_amount = 84

FeesA == swap_pool.total_fees_a
FeesB == swap_pool.total_fees_b
FeesABefore == last.pre.swap_pool.total_fees_a
FeesBBefore == last.pre.swap_pool.total_fees_b

\* C13: total_fees_a and total_fees_b decrease only in a successful
\* collect_fees, which leaves both at zero; they increase only in a
\* successful swap; liquidity, admin and query instructions leave them
\* unchanged.
C13_FeeCountersMonotonic ==
    /\ (FeesA < FeesABefore \/ FeesB < FeesBBefore) =>
          last.op = "collect_fees" /\ last.committed
    /\ (last.op = "collect_fees" /\ last.committed) => FeesA = 0 /\ FeesB = 0
    /\ (FeesA > FeesABefore \/ FeesB > FeesBBefore) =>
          last.op = "swap" /\ last.committed
    /\ last.op \notin {"swap", "collect_fees"} =>
          FeesA = FeesABefore /\ FeesB = FeesBBefore
    /\ ~last.committed => FeesA = FeesABefore /\ FeesB = FeesBBefore

C13_Witness ==
    /\ last.op = "add_liquidity" /\ last.committed
    /\ ReserveA = 120 /\ ReserveB = 84
    /\ FeesA = FeesABefore /\ FeesB = FeesBBefore

\* The instruction failed inside the handler: on a guard, a checked
\* arithmetic step or a slippage check (not in the token program).
FailedInHandler == last.err \notin {"Ok", "TokenError", "ConstraintRaw"}

\* C14 (as specified): at the point where an instruction fails on a guard,
\* an arithmetic check or a slippage check, it has issued no transfer, mint
\* or burn and has written no field of the pool account; in particular a
\* swap failing with SlippageExceeded has not changed a fee counter.
C14_ValidateBeforeMutate ==
    FailedInHandler =>
        /\ last.effects = <<>>
        /\ last.mem = last.pre.swap_pool

\* What calculate_swap_result returns for the last call's inputs in the
\* state as it is now.
SimulatedAgain ==
    calculate_swap_result(swap_pool, token_a_vault_amount, token_b_vault_amount,
                          last.args.amount_in, last.args.is_a_to_b)

\* C15: calculate_swap_result is pure and deterministic: it leaves both
\* vault balances, the LP supply and every field of the pool account
\* (both fee counters included) unchanged and issues no token-program call,
\* and a second call with the same (amount_in, is_a_to_b) on the state it
\* leaves returns the identical result.
C15_SimulationIsPure ==
    last.op = "calculate_swap_result" =>
        /\ NothingChanged
        /\ last.effects = <<>>
        /\ last.mem = last.pre.swap_pool
        /\ SimulatedAgain.err = last.err
        /\ SimulatedAgain.ret = last.ret

C15_Witness ==
    /\ last.op = "calculate_swap_result" /\ last.err = "Ok"
    /\ last.args.amount_in = 20 /\ last.args.is_a_to_b
    /\ token_a_vault_amount = 100 /\ token_b_vault_amount = 100
    /\ swap_pool.fee_rate = 1000
    /\ last.ret = <<16>>

\* The last swap exchanges the pool's two assets: its source account holds
\* one of them and its destination account the other.
SwapsThePair ==
    \/ /\ last.args.user_token_a_mint = last.pre.swap_pool.token_a_mint
       /\ last.args.user_token_b_mint = last.pre.swap_pool.token_b_mint
    \/ /\ last.args.user_token_a_mint = last.pre.swap_pool.token_b_mint
       /\ last.args.user_token_b_mint = last.pre.swap_pool.token_a_mint

\* calculate_swap_result for the last swap's amount and direction in the
\* state the swap found.
SimulatedBefore ==
    calculate_swap_result(last.pre.swap_pool, last.pre.token_a_vault,
                          last.pre.token_b_vault, last.args.amount_in, SellsA)

\* C16 (as specified): for every unpaused state, direction and amount_in > 0,
\* when swap with min_amount_out = 0 succeeds, calculate_swap_result on the
\* same state returns exactly the net_out the swap transfers to the trader;
\* and when calculate_swap_result returns v, swap with min_amount_out = v
\* on the same state succeeds.
C16_SimulationAgreesWithSwap ==
    (/\ last.op = "swap"
     /\ SwapsThePair
     /\ ~last.pre.swap_pool.is_paused
     /\ last.args.amount_in > 0) =>
        /\ (last.committed /\ last.args.min_amount_out = 0) =>
              /\ SimulatedBefore.err = "Ok"
              /\ SimulatedBefore.ret = <<last.effects[2].amount>>
        /\ (/\ SimulatedBefore.err = "Ok"
            /\ SimulatedBefore.ret = <<last.args.min_amount_out>>) =>
              last.committed

\* amount * 1_000_000 / base in unbounded integers exceeds the word
\* (base > 0); the quotient is compared in two steps of 1000.
ScaledQuotientExceedsWord(amount, base) ==
    LET q1 == (amount * 1000) \div base
        r1 == (amount * 1000) % base
    IN  IF q1 > U64_MAX \div 1000 THEN TRUE
        ELSE q1 * 1000 + (r1 * 1000) \div base > U64_MAX

\* C17 (as specified): no narrowing of a widened quotient truncates
\* silently: whenever the quotient computed in add_liquidity,
\* remove_liquidity, get_token_a_price, get_token_b_price or
\* get_user_pool_share exceeds the largest u64, the instruction fails with
\* an error instead of continuing with the value reduced modulo 2^64.
C17_NoSilentTruncation ==
    /\ (/\ last.op = "add_liquidity"
        /\ ~last.pre.swap_pool.is_paused
        /\ last.args.amount_a_desired > 0 /\ last.args.amount_b_desired > 0
        /\ ReserveA > 0 /\ ReserveB > 0
        /\ OptimalB > U64_MAX) => last.err # "Ok"
    /\ (/\ last.op = "remove_liquidity"
        /\ ~last.pre.swap_pool.is_paused
        /\ last.args.lp_amount > 0 /\ Supply > 0
        /\ \/ (last.args.lp_amount * ReserveA) \div Supply > U64_MAX
           \/ (last.args.lp_amount * ReserveB) \div Supply > U64_MAX)
          => last.err # "Ok"
    /\ (/\ last.op = "get_token_a_price" /\ ReserveA > 0
        /\ ScaledQuotientExceedsWord(ReserveB, ReserveA)) => last.err # "Ok"
    /\ (/\ last.op = "get_token_b_price" /\ ReserveB > 0
        /\ ScaledQuotientExceedsWord(ReserveA, ReserveB)) => last.err # "Ok"
    /\ (/\ last.op = "get_user_pool_share" /\ Supply > 0
        /\ ScaledQuotientExceedsWord(last.pre.user_lp_token[last.caller], Supply))
          => last.err # "Ok"

\* C18 (as specified): every overflow or division by zero inside
\* add_liquidity and remove_liquidity is returned as InvalidAmount; in
\* particular remove_liquidity with lp_amount > 0 on a pool whose LP supply
\* is zero returns InvalidAmount.
C18_ArithmeticFailsInvalidAmount ==
    /\ (/\ last.op = "remove_liquidity"
        /\ ~last.pre.swap_pool.is_paused
        /\ last.args.lp_amount > 0
        /\ Supply = 0) => Rejected("InvalidAmount")
    /\ (/\ last.op = "add_liquidity"
        /\ ~last.pre.swap_pool.is_paused
        /\ last.args.amount_a_desired > 0 /\ last.args.amount_b_desired > 0
        /\ ReserveA > 0 /\ ReserveB > 0
        /\ OptimalB > U64_MAX) => Rejected("InvalidAmount")

\* C19 (as specified): swap forms input_reserve * output_reserve in a
\* widened intermediate: with amount_in > 0 and input_reserve + amount_in
\* within u64 (and the fee product and counter within u64), swap does not
\* fail because input_reserve * output_reserve exceeds u64, and its net_out
\* is that of the pricing formula in unbounded integers.
C19_SwapProductWidened ==
    (/\ last.op = "swap"
     /\ SwapConstraints(last.pre.swap_pool, last.args.user_token_a_mint,
                        last.args.user_token_b_mint)
     /\ ~last.pre.swap_pool.is_paused
     /\ last.args.amount_in > 0
     /\ InputReserve + last.args.amount_in <= U64_MAX
     /\ LastGross * last.pre.swap_pool.fee_rate <= U64_MAX
     /\ OutputFeesBefore + LastFee <= U64_MAX
     /\ LastNet >= last.args.min_amount_out) =>
        /\ last.err = "Ok"
        /\ last.effects = SwapTransfers(LastNet)

\* C20 (as specified): add_initial_liquidity with amount_a > 0 and
\* amount_b > 0 transfers exactly amount_a and amount_b from the provider
\* into the two vaults and mints exactly floor(sqrt(amount_a) *
\* sqrt(amount_b)) LP shares to the provider; with amount_a = 0 or
\* amount_b = 0 it fails with InvalidAmount and moves nothing.
C20_InitialLiquidityMint ==
    last.op = "add_initial_liquidity" =>
        IF last.args.amount_a > 0 /\ last.args.amount_b > 0
        THEN last.effects =
               <<Transfer("user_token_a", "token_a_vault", last.args.amount_a),
                 Transfer("user_token_b", "token_b_vault", last.args.amount_b),
                 MintTo("user_lp_token",
                        isqrt(last.args.amount_a * last.args.amount_b))>>
        ELSE Rejected("InvalidAmount")

\* C21 (as specified): in every state of an initialized pool token_a_mint
\* differs from token_b_mint, and no instruction after initialize_pool
\* changes token_a_mint, token_b_mint or the bump seed.
C21_MintsDistinctAndFixed ==
    /\ initialized => swap_pool.token_a_mint # swap_pool.token_b_mint
    /\ last.op \notin {"none", "initialize_pool"} =>
          /\ swap_pool.token_a_mint = last.pre.swap_pool.token_a_mint
          /\ swap_pool.token_b_mint = last.pre.swap_pool.token_b_mint
          /\ swap_pool.bump = last.pre.swap_pool.bump
          /\ swap_pool.pool_authority = last.pre.swap_pool.pool_authority

AdminOps == {"collect_fees", "set_paused", "update_fee_rate", "transfer_admin"}

\* C22: a successful transfer_admin(new_admin) is the current admin's and
\* leaves admin = new_admin; collect_fees, set_paused, update_fee_rate and
\* transfer_admin fail Unauthorized exactly for the callers that are not
\* the admin stored when they run (so after a hand-over the previous admin
\* is refused and the new one is authorized); no instruction other than
\* transfer_admin changes admin.
C22_TransferAdmin ==
    /\ (last.op = "transfer_admin" /\ last.committed) =>
          /\ AdminCall
          /\ swap_pool = [last.pre.swap_pool EXCEPT !.admin = last.args.new_admin]
    /\ last.op \in AdminOps => (last.err = "Unauthorized" <=> ~AdminCall)
    /\ last.op \notin {"none", "initialize_pool", "transfer_admin"} =>
          swap_pool.admin = last.pre.swap_pool.admin
    /\ ~last.committed => swap_pool.admin = last.pre.swap_pool.admin

C22_Witness ==
    /\ last.op = "set_paused" /\ last.committed
    /\ last.caller = "bob" /\ last.pre.swap_pool.admin = "bob"
    /\ last.args.paused /\ swap_pool.is_paused

\* C23 (as specified): a successful initialize_pool(fee_rate) leaves a pool
\* account with is_paused = FALSE, both fee counters zero, admin the
\* initializer, fee_rate the argument, and token_a_vault, token_b_vault and
\* lp_mint the keys of the supplied vault A, vault B and LP mint; it moves
\* no asset.
C23_InitializePoolState ==
    (last.op = "initialize_pool" /\ last.committed) =>
        /\ ~swap_pool.is_paused
        /\ swap_pool.total_fees_a = 0 /\ swap_pool.total_fees_b = 0
        /\ swap_pool.admin = last.caller
        /\ swap_pool.fee_rate = last.args.fee_rate
        /\ swap_pool.token_a_vault = "token_a_vault"
        /\ swap_pool.token_b_vault = "token_b_vault"
        /\ swap_pool.lp_mint = "lp_mint"
        /\ last.effects = <<>>
        /\ token_a_vault_amount = last.pre.token_a_vault
        /\ token_b_vault_amount = last.pre.token_b_vault
        /\ lp_mint_supply = last.pre.lp_mint

\* C24: is_paused is a boolean (the pool is Active or Paused); it changes
\* only in a successful set_paused by the admin, which sets it to its
\* argument whatever it was (a second set_paused(x) leaves the state of the
\* first); every other instruction, successful or failed, leaves it
\* unchanged.
C24_PausedOnlyBySetPaused ==
    /\ swap_pool.is_paused \in BOOLEAN
    /\ (last.op = "set_paused" /\ AdminCall) =>
          /\ last.committed
          /\ swap_pool = [last.pre.swap_pool EXCEPT !.is_paused = last.args.paused]
          /\ set_paused(swap_pool, last.caller, last.args.paused).mem = swap_pool
    /\ (last.op = "set_paused" /\ last.committed) => AdminCall
    /\ last.op # "set_paused" => swap_pool.is_paused = last.pre.swap_pool.is_paused
    /\ ~last.committed => swap_pool.is_paused = last.pre.swap_pool.is_paused

C24_Witness ==
    /\ last.op = "set_paused" /\ last.committed
    /\ last.pre.swap_pool.is_paused /\ last.args.paused
    /\ swap_pool.is_paused
    /\ token_a_vault_amount = 100

\* C25 (as specified): while is_paused is true, no instruction other than
\* collect_fees changes a vault balance or the LP supply; in particular
\* add_initial_liquidity deposits nothing and mints nothing on a paused pool.
C25_PausedFreezesBalances ==
    (last.pre.swap_pool.is_paused /\ last.op # "collect_fees") =>
        /\ token_a_vault_amount = last.pre.token_a_vault
        /\ token_b_vault_amount = last.pre.token_b_vault
        /\ lp_mint_supply = last.pre.lp_mint
        /\ user_lp_token_amount = last.pre.user_lp_token

\* C26: zero or unusable inputs are rejected with no effect: add_liquidity
\* with a zero desired amount, remove_liquidity with lp_amount = 0 and swap
\* with amount_in = 0 fail with InvalidAmount; add_liquidity with positive
\* amounts fails with InsufficientLiquidity when a reserve is zero; a price
\* query fails with InsufficientLiquidity when the reserve it divides by is
\* zero; on a paused pool the three gated instructions fail with PoolPaused
\* before any of these.
C26_UnusableInputsRejected ==
    /\ last.op = "add_liquidity" =>
          IF last.pre.swap_pool.is_paused THEN Rejected("PoolPaused")
          ELSE IF last.args.amount_a_desired = 0 \/ last.args.amount_b_desired = 0
          THEN Rejected("InvalidAmount")
          ELSE (ReserveA = 0 \/ ReserveB = 0) => Rejected("InsufficientLiquidity")
    /\ last.op = "remove_liquidity" =>
          IF last.pre.swap_pool.is_paused THEN Rejected("PoolPaused")
          ELSE last.args.lp_amount = 0 => Rejected("InvalidAmount")
    /\ (/\ last.op = "swap"
        /\ SwapConstraints(last.pre.swap_pool, last.args.user_token_a_mint,
                           last.args.user_token_b_mint)) =>
          IF last.pre.swap_pool.is_paused THEN Rejected("PoolPaused")
          ELSE last.args.amount_in = 0 => Rejected("InvalidAmount")
    /\ (last.op = "get_token_a_price" /\ ReserveA = 0) =>
          Rejected("InsufficientLiquidity")
    /\ (last.op = "get_token_b_price" /\ ReserveB = 0) =>
          Rejected("InsufficientLiquidity")

C26_Witness ==
    /\ last.op = "add_liquidity" /\ last.err = "InsufficientLiquidity"
    /\ last.args.amount_a_desired = 10 /\ last.args.amount_b_desired = 30
    /\ ReserveA = 0 /\ ReserveB = 0
    /\ ~last.pre.swap_pool.is_paused

\* C27 (as specified): add_initial_liquidity takes effect only while the LP
\* supply is zero: when LP shares already exist the call deposits nothing
\* and mints nothing, so it cannot reduce the pro-rata claim of a provider.
C27_InitialLiquidityOnlyOnce ==
    (last.op = "add_initial_liquidity" /\ Supply > 0) =>
        /\ ~last.committed
        /\ NothingChanged

\* C28 (as specified): the product of the two vault balances never decreases
\* across a successful swap, at every fee rate from 0 to 1000: the integer
\* rounding of the pricing formula never favours the trader over the pool.
C28_ProductNeverDecreases ==
    (last.op = "swap" /\ last.committed) =>
        token_a_vault_amount * token_b_vault_amount
            >= last.pre.token_a_vault * last.pre.token_b_vault

\* What the handler computes, in the current state, for the trader who has
\* just sold A for LastNet of B and offers that LastNet of B back.  The
\* handler sells B only when user_token_a does not hold A and user_token_b
\* holds B.
ReturnLegInHandler ==
    swap(swap_pool, token_a_vault_amount, token_b_vault_amount,
         swap_pool.token_b_mint, swap_pool.token_b_mint, LastNet, 0)

\* The program's answer to the same offer: the account constraints first.
ReturnLeg ==
    IF SwapConstraints(swap_pool, swap_pool.token_b_mint, swap_pool.token_b_mint)
    THEN ReturnLegInHandler
    ELSE Result("ConstraintRaw", swap_pool, <<>>, <<>>)

RedeemJustMinted ==
    remove_liquidity(swap_pool, token_a_vault_amount, token_b_vault_amount,
                     lp_mint_supply, last.effects[3].amount, 0, 0)

\* C31: a successful add_liquidity never reduces the reserves backing each
\* existing LP share: Ra' * S >= Ra * S' and Rb' * S >= Rb * S'; so
\* removing the shares just minted returns at most the deposited amount of
\* each asset.
C31_AddLiquidityNeverDilutes ==
    (last.op = "add_liquidity" /\ last.committed) =>
        /\ token_a_vault_amount * Supply >= ReserveA * lp_mint_supply
        /\ token_b_vault_amount * Supply >= ReserveB * lp_mint_supply
        /\ RedeemJustMinted.err = "Ok" =>
              /\ RedeemJustMinted.effects[2].amount <= last.effects[1].amount
              /\ RedeemJustMinted.effects[3].amount <= last.effects[2].amount

C31_Witness ==
    /\ last.op = "add_liquidity" /\ last.committed
    /\ ReserveA = 100 /\ ReserveB = 400 /\ Supply = 200
    /\ token_a_vault_amount = 107 /\ token_b_vault_amount = 430
    /\ lp_mint_supply = 214
    /\ RedeemJustMinted.err = "Ok"
    /\ RedeemJustMinted.effects[2].amount = 7
    /\ RedeemJustMinted.effects[3].amount = 28

\* C32 (as specified): a successful add_liquidity never takes assets for
\* nothing: whenever it transfers a positive amount of either asset into
\* the vaults, both accepted amounts are positive and the number of LP
\* shares minted is greater than zero.
C32_NoDepositForNothing ==
    (/\ last.op = "add_liquidity" /\ last.committed
     /\ (last.effects[1].amount > 0 \/ last.effects[2].amount > 0)) =>
        /\ last.effects[1].amount > 0
        /\ last.effects[2].amount > 0
        /\ last.effects[3].amount > 0
        /\ lp_mint_supply > Supply

\* C33 (as specified): a successful swap on a pool whose two reserves are
\* both positive leaves both reserves positive, and a swap against a pool
\* whose input reserve is zero does not hand out the output reserve; so no
\* swap leaves the pool where add_liquidity fails with
\* InsufficientLiquidity.
C33_SwapKeepsReservesPositive ==
    (last.op = "swap" /\ last.committed) =>
        /\ (ReserveA > 0 /\ ReserveB > 0) =>
              /\ token_a_vault_amount > 0
              /\ token_b_vault_amount > 0
              /\ add_liquidity(swap_pool, token_a_vault_amount, token_b_vault_amount,
                               lp_mint_supply, 10, 30, 0, 0).err
                    # "InsufficientLiquidity"
        /\ InputReserve = 0 => OutputVaultNow = OutputReserve

====
